---- MODULE Spec2Model ----
(***************************************************************************)
(* The graph explorer of frontend/src/components/KnowledgeManager.tsx      *)
(* (component GraphExplorer): the query for a managed object, the          *)
(* synthetic graph generator, the force layout, the viewport (zoom, pan)   *)
(* and the pointer handlers.                                               *)
(*                                                                         *)
(* Representation.                                                         *)
(*  - A JavaScript string is a sequence of one-character strings, so that  *)
(*    template literals are concatenations (\o) and trim() can look at     *)
(*    the characters.  A non-ASCII character is written by its code point  *)
(*    ("u4F7F").                                                           *)
(*  - An optional value (node.x, node.y, selectedNode) is <<>> when it is  *)
(*    undefined / null and <<v>> when it holds v.                          *)
(*  - Coordinates are fixed-point numbers: an integer n stands for         *)
(*    n / PosScale canvas units.  zoom is fixed-point too: n stands for    *)
(*    n / ZoomScale.  Products and quotients truncate toward zero.         *)
(***************************************************************************)
EXTENDS Integers, Sequences, FiniteSets, TLC

VARIABLES
    managedObject,  \* useState(''): the text of the query input
    graphData,      \* useState({nodes: [], edges: []})
    loading,        \* useState(false)
    selectedNode,   \* useState(null): <<>> or <<node>>
    zoom,           \* useState(1), in 1/ZoomScale
    pan,            \* useState({x: 0, y: 0}), screen pixels
    isDragging,     \* useState(false)
    dragStart,      \* useState({x: 0, y: 0})
    pending,        \* the fetches in flight: the managedObject each closure captured
    layoutDep,      \* the dependency [graphData.nodes.length] the layout effect last saw
    fetches,        \* number of fetch() calls made so far
    lastSubmitted,  \* <<>> or <<the managedObject of the latest fetch() call>>
    zoomOps,        \* number of zoom changes (wheel and toolbar) in this behaviour
    panOps,         \* number of pointer-moves a drag has followed in this behaviour
    lastOp,         \* the handler that ran last, with its event and outcome
    lnodes,         \* applyForceLayout: the local array nodes
    ledges,         \* applyForceLayout: the local edges
    lstep,          \* applyForceLayout: the outer loop counter i
    lpc,            \* applyForceLayout: "idle", "loop" or "returned"
    genRoot,        \* generator calls: the centerObject passed
    genOut,         \* generator calls: the graphs returned so far, in call order
    clock,          \* generator calls: the value new Date() returns
    kmNodes,        \* KnowledgeManager: useState([]) nodes
    kmSelectedNode, \* KnowledgeManager: useState(null) selectedNode
    kmDeletes,      \* KnowledgeManager: the delete requests in flight, each with
                    \* the id and the nodes and selectedNode its closure captured
    kmDeleted       \* KnowledgeManager: the ids whose delete request has succeeded

vars == <<managedObject, graphData, loading, selectedNode, zoom, pan, isDragging,
          dragStart, pending, layoutDep, fetches, lastSubmitted, zoomOps, panOps,
          lastOp, lnodes, ledges, lstep, lpc, genRoot, genOut, clock,
          kmNodes, kmSelectedNode, kmDeletes, kmDeleted>>

explorerVars == <<managedObject, graphData, loading, selectedNode, zoom, pan,
                  isDragging, dragStart, pending, layoutDep, fetches, lastSubmitted,
                  zoomOps, panOps, lastOp>>

layoutVars == <<lnodes, ledges, lstep, lpc>>

genVars == <<genRoot, genOut, clock>>

managerVars == <<kmNodes, kmSelectedNode, kmDeletes, kmDeleted>>

(***************************************************************************)
(* Bounds of the model.                                                    *)
(***************************************************************************)
\* fetch() calls in one behaviour of Spec
MaxQueries == 2
\* the timestamps new Date() can return in Spec are 0..MaxClock
MaxClock == 1
\* zoom changes in one behaviour of SpecZoom
MaxZoomSeq == 14
\* zoom changes and drag moves, taken together, in one behaviour of SpecView
MaxViewOps == 2
\* renders followed after one state update
MaxRenders == 3
\* delete requests confirmed in one behaviour of SpecManager
MaxDeletes == 3
\* generator calls in one behaviour of SpecGen
MaxGenCalls == 2
\* the clock of SpecGen runs over 0..MaxGenClock
MaxGenClock == 3

(***************************************************************************)
(* Fixed-point scales.                                                     *)
(***************************************************************************)
PosScale == 10
ZoomScale == 1000

\* a / b truncated toward zero, as a fixed-point quotient of JS numbers
Quot(a, b) == IF a >= 0 THEN a \div b ELSE -((-a) \div b)

None == <<>>
Some(v) == <<v>>

(***************************************************************************)
(* Strings.                                                                *)
(***************************************************************************)
WhiteSpace == {" ", "\t", "\n"}

RECURSIVE trimStart(_)
trimStart(s) ==
    IF s # <<>> /\ Head(s) \in WhiteSpace THEN trimStart(Tail(s)) ELSE s

RECURSIVE trimEnd(_)
trimEnd(s) ==
    IF s # <<>> /\ s[Len(s)] \in WhiteSpace
    THEN trimEnd(SubSeq(s, 1, Len(s) - 1))
    ELSE s

\* String.prototype.trim
trim(s) == trimEnd(trimStart(s))

\* the string literals of generateMockGraphData
StrApi == <<"-", "a", "p", "i">>
StrDb == <<"-", "d", "b">>
StrCache == <<"-", "c", "a", "c", "h", "e">>
StrEvt001 == <<"e", "v", "t", "-", "0", "0", "1">>
StrEvt002 == <<"e", "v", "t", "-", "0", "0", "2">>
StrDep001 == <<"d", "e", "p", "-", "0", "0", "1">>
LblApi == <<" ", "A", "P", "I">>
LblDb == <<" ", "D", "a", "t", "a", "b", "a", "s", "e">>
LblCache == <<" ", "C", "a", "c", "h", "e">>
LblEvt001 == <<"C", "P", "U", "u4F7F", "u7528", "u7387", "u544A", "u8B66">>
LblEvt002 == <<"u54CD", "u5E94", "u65F6", "u95F4", "u5F02", "u5E38">>
LblDep001 == <<"E", "x", "t", "e", "r", "n", "a", "l", " ", "A", "P", "I">>

(***************************************************************************)
(* generateMockGraphData(centerObject).  now is what new Date() returns    *)
(* during the call.                                                        *)
(***************************************************************************)
Node(id, label, type, properties) ==
    [id |-> id, label |-> label, type |-> type, properties |-> properties,
     x |-> None, y |-> None]

Edge(id, source, target, type, label) ==
    [id |-> id, source |-> source, target |-> target, type |-> type, label |-> label]

\* const nodes, lines 710-784
mockNodes(centerObject, now) ==
    << Node(centerObject, centerObject, "managed_object",
            [status |-> "healthy", region |-> "us-west-2", environment |-> "production"]),
       Node(centerObject \o StrApi, centerObject \o LblApi, "service",
            [status |-> "running", port |-> 8080, health |-> "healthy"]),
       Node(centerObject \o StrDb, centerObject \o LblDb, "service",
            [status |-> "running", type |-> "postgresql", health |-> "healthy"]),
       Node(centerObject \o StrCache, centerObject \o LblCache, "service",
            [status |-> "running", type |-> "redis", health |-> "healthy"]),
       Node(StrEvt001, LblEvt001, "event",
            [severity |-> "warning", timestamp |-> now, metric |-> "cpu_usage > 80%"]),
       Node(StrEvt002, LblEvt002, "event",
            [severity |-> "critical", timestamp |-> now, metric |-> "response_time > 2s"]),
       Node(StrDep001, LblDep001, "dependency",
            [type |-> "external", endpoint |-> "https://api.external.com"]) >>

\* a mutant of mockEdges: edge-6 points at a node that is not generated
mockEdgesDanglingTarget(centerObject) ==
    << Edge("edge-1", centerObject, centerObject \o StrApi, "MANAGES", "manages"),
       Edge("edge-2", centerObject, centerObject \o StrDb, "MANAGES", "manages"),
       Edge("edge-3", centerObject, centerObject \o StrCache, "MANAGES", "manages"),
       Edge("edge-4", StrEvt001, centerObject, "AFFECTS", "affects"),
       Edge("edge-5", StrEvt002, centerObject \o StrApi, "AFFECTS", "affects"),
       Edge("edge-6", centerObject \o StrApi, <<"d", "e", "p", "-", "0", "0", "2">>,
            "DEPENDS_ON", "depends on") >>

\* const edges, lines 786-832
mockEdges(centerObject) ==
    << Edge("edge-1", centerObject, centerObject \o StrApi, "MANAGES", "manages"),
       Edge("edge-2", centerObject, centerObject \o StrDb, "MANAGES", "manages"),
       Edge("edge-3", centerObject, centerObject \o StrCache, "MANAGES", "manages"),
       Edge("edge-4", StrEvt001, centerObject, "AFFECTS", "affects"),
       Edge("edge-5", StrEvt002, centerObject \o StrApi, "AFFECTS", "affects"),
       Edge("edge-6", centerObject \o StrApi, StrDep001, "DEPENDS_ON", "depends on") >>

\* a mutant of the generator: the cache service and its edge are left out
generateMockGraphDataNoCache(centerObject, now) ==
    [nodes |-> SelectSeq(mockNodes(centerObject, now),
                         LAMBDA n : n.id # centerObject \o StrCache),
     edges |-> SelectSeq(mockEdges(centerObject),
                         LAMBDA e : e.target # centerObject \o StrCache)]

\* a mutant of the generator: the event ids carry the time of the call
generateMockGraphDataTimedIds(centerObject, now) ==
    [nodes |-> [k \in 1..Len(mockNodes(centerObject, now)) |->
                  LET n == mockNodes(centerObject, now)[k]
                  IN  IF n.type = "event"
                      THEN [n EXCEPT !.id = @ \o (IF now % 2 = 0 THEN <<"-", "a">>
                                                  ELSE <<"-", "b">>)]
                      ELSE n],
     edges |-> mockEdges(centerObject)]

\* generateMockGraphData, lines 709-835
generateMockGraphData(centerObject, now) ==
    [nodes |-> mockNodes(centerObject, now), edges |-> mockEdges(centerObject)]

\* a mutant of generateGraphData: a body that carries a graph is used, and
\* gives the root node alone
generateGraphDataFromBody(centerObject, apiData, now) ==
    IF apiData = "graph_json"
    THEN [nodes |-> << mockNodes(centerObject, now)[1] >>, edges |-> <<>>]
    ELSE generateMockGraphData(centerObject, now)

\* generateGraphData(centerObject, apiData): apiData is not read
generateGraphData(centerObject, apiData, now) ==
    generateMockGraphData(centerObject, now)

(***************************************************************************)
(* applyForceLayout(data).                                                 *)
(***************************************************************************)
width == 800
height == 600
centerX == (width * PosScale) \div 2
centerY == (height * PosScale) \div 2
LayoutIterations == 100
RadiusService == 150
RadiusEvent == 100
RadiusOther == 200
RepelStrength == 1000
\* the attraction factor 0.01 is 1 / AttractDivisor
AttractDivisor == 100

\* Math.sqrt on fixed-point numbers: the largest r with r * r <= n
RECURSIVE sqrtBetween(_, _, _)
sqrtBetween(n, lo, hi) ==
    IF lo >= hi THEN lo
    ELSE LET mid == (lo + hi + 1) \div 2
         IN  IF mid * mid <= n THEN sqrtBetween(n, mid, hi)
             ELSE sqrtBetween(n, lo, mid - 1)

sqrt(n) == sqrtBetween(n, 0, 46340)

\* Math.cos and Math.sin of (index / length) * 2 * Math.PI, in thousandths, for
\* the 0 <= index < length <= 8 the layout inputs of this model use; the key is
\* the angle in 1/840 of a turn.
TrigTable ==
    (0 :> <<1000, 0>>) @@ (105 :> <<707, 707>>) @@ (120 :> <<623, 782>>) @@
    (140 :> <<500, 866>>) @@ (168 :> <<309, 951>>) @@ (210 :> <<0, 1000>>) @@
    (240 :> <<-223, 975>>) @@ (280 :> <<-500, 866>>) @@ (315 :> <<-707, 707>>) @@
    (336 :> <<-809, 588>>) @@ (360 :> <<-901, 434>>) @@ (420 :> <<-1000, 0>>) @@
    (480 :> <<-901, -434>>) @@ (504 :> <<-809, -588>>) @@ (525 :> <<-707, -707>>) @@
    (560 :> <<-500, -866>>) @@ (600 :> <<-223, -975>>) @@ (630 :> <<0, -1000>>) @@
    (672 :> <<309, -951>>) @@ (700 :> <<500, -866>>) @@ (720 :> <<623, -782>>) @@
    (735 :> <<707, -707>>)

cosTimes(index, length, radius) ==
    Quot(TrigTable[(index * 840) \div length][1] * radius * PosScale, 1000)

sinTimes(index, length, radius) ==
    Quot(TrigTable[(index * 840) \div length][2] * radius * PosScale, 1000)

\* a mutant of the radius: services on the inner circle, events outside them
placementRadiusServiceInside(type) ==
    IF type = "service" THEN RadiusEvent
    ELSE IF type = "event" THEN RadiusService
    ELSE RadiusOther

\* const radius = node.type === 'service' ? 150 : node.type === 'event' ? 100 : 200,
\* lines 859-860
placementRadius(type) ==
    IF type = "service" THEN RadiusService
    ELSE IF type = "event" THEN RadiusEvent
    ELSE RadiusOther

\* nodes.forEach((node, index) => ...), lines 853-864; index is 0-based
placeNode(node, index, length) ==
    IF node.type = "managed_object"
    THEN [node EXCEPT !.x = Some(centerX), !.y = Some(centerY)]
    ELSE LET radius == placementRadius(node.type)
         IN  [node EXCEPT !.x = Some(centerX + cosTimes(index, length, radius)),
                          !.y = Some(centerY + sinTimes(index, length, radius))]

\* a mutant of the placement: the array is filled back to front
initPositionsReversed(nodes) ==
    [k \in 1..Len(nodes) |->
        placeNode(nodes[Len(nodes) + 1 - k], Len(nodes) - k, Len(nodes))]

initPositions(nodes) ==
    [k \in 1..Len(nodes) |-> placeNode(nodes[k], k - 1, Len(nodes))]

\* a mutant of the repulsion: only the second node of the pair is moved
repelPairOneSided(nodes, i, j) ==
    LET dx == nodes[j].x[1] - nodes[i].x[1]
        dy == nodes[j].y[1] - nodes[i].y[1]
        distance == sqrt(dx * dx + dy * dy)
    IN  IF distance > 0
        THEN LET force == (RepelStrength * PosScale * PosScale * PosScale * 100)
                              \div (distance * distance)
                 fx == Quot(dx * force, distance * 100)
                 fy == Quot(dy * force, distance * 100)
             IN  [nodes EXCEPT ![j].x = Some(nodes[j].x[1] + fx),
                               ![j].y = Some(nodes[j].y[1] + fy)]
        ELSE nodes

\* a mutant of the repulsion: a pair at distance 0 is pushed apart by a minimum
\* distance instead of being skipped
repelPairFloored(nodes, i, j) ==
    LET dx == nodes[j].x[1] - nodes[i].x[1]
        dy == nodes[j].y[1] - nodes[i].y[1]
        distance == sqrt(dx * dx + dy * dy)
    IN  IF distance > 0
        THEN LET force == (RepelStrength * PosScale * PosScale * PosScale * 100)
                              \div (distance * distance)
                 fx == Quot(dx * force, distance * 100)
                 fy == Quot(dy * force, distance * 100)
             IN  [nodes EXCEPT ![i].x = Some(nodes[i].x[1] - fx),
                               ![i].y = Some(nodes[i].y[1] - fy),
                               ![j].x = Some(nodes[j].x[1] + fx),
                               ![j].y = Some(nodes[j].y[1] + fy)]
        ELSE [nodes EXCEPT ![i].x = Some(nodes[i].x[1] - PosScale),
                           ![j].x = Some(nodes[j].x[1] + PosScale)]

\* the body of the inner repulsion loop for the pair (i, j), lines 871-882
repelPair(nodes, i, j) ==
    LET dx == nodes[j].x[1] - nodes[i].x[1]
        dy == nodes[j].y[1] - nodes[i].y[1]
        distance == sqrt(dx * dx + dy * dy)
    IN  IF distance > 0
        THEN LET force == (RepelStrength * PosScale * PosScale * PosScale * 100)
                              \div (distance * distance)
                 fx == Quot(dx * force, distance * 100)
                 fy == Quot(dy * force, distance * 100)
             IN  [nodes EXCEPT ![i].x = Some(nodes[i].x[1] - fx),
                               ![i].y = Some(nodes[i].y[1] - fy),
                               ![j].x = Some(nodes[j].x[1] + fx),
                               ![j].y = Some(nodes[j].y[1] + fy)]
        ELSE nodes

\* for (i ...) for (j = i + 1 ...), lines 869-884, from the pair (i, j) on
RECURSIVE repelFrom(_, _, _)
repelFrom(nodes, i, j) ==
    IF i > Len(nodes) THEN nodes
    ELSE IF j > Len(nodes) THEN repelFrom(nodes, i + 1, i + 2)
    ELSE LET moved == repelPair(nodes, i, j)
         IN  IF Len(moved) = Len(nodes) THEN repelFrom(moved, i, j + 1) ELSE moved

\* nodes.find(n => n.id === id): the index of the first match, 0 when none
findById(nodes, id) ==
    IF \E k \in 1..Len(nodes) : nodes[k].id = id
    THEN CHOOSE k \in 1..Len(nodes) :
            /\ nodes[k].id = id
            /\ \A m \in 1..(k - 1) : nodes[m].id # id
    ELSE 0

\* the body of edges.forEach, lines 888-903
attractEdge(nodes, edge) ==
    LET s == findById(nodes, edge.source)
        t == findById(nodes, edge.target)
    IN  IF s # 0 /\ t # 0
        THEN LET dx == nodes[t].x[1] - nodes[s].x[1]
                 dy == nodes[t].y[1] - nodes[s].y[1]
                 distance == sqrt(dx * dx + dy * dy)
             IN  IF distance > 0
                 THEN LET force == (distance * 100) \div AttractDivisor
                          fx == Quot(dx * force, distance * 100)
                          fy == Quot(dy * force, distance * 100)
                      IN  [nodes EXCEPT ![s].x = Some(nodes[s].x[1] + fx),
                                        ![s].y = Some(nodes[s].y[1] + fy),
                                        ![t].x = Some(nodes[t].x[1] - fx),
                                        ![t].y = Some(nodes[t].y[1] - fy)]
                 ELSE nodes
        ELSE nodes

RECURSIVE attractFrom(_, _, _)
attractFrom(nodes, edges, k) ==
    IF k > Len(edges) THEN nodes
    ELSE LET moved == attractEdge(nodes, edges[k])
         IN  IF Len(moved) = Len(nodes) THEN attractFrom(moved, edges, k + 1) ELSE moved

\* a mutant of the anchor: the first node of the array is taken for the center
anchorFirstNode(nodes) ==
    IF Len(nodes) > 0
    THEN [nodes EXCEPT ![1].x = Some(centerX), ![1].y = Some(centerY)]
    ELSE nodes

\* const centerNode = nodes.find(n => n.type === 'managed_object'), lines 907-911
anchorCenter(nodes) ==
    IF \E k \in 1..Len(nodes) : nodes[k].type = "managed_object"
    THEN LET c == CHOOSE k \in 1..Len(nodes) :
                    /\ nodes[k].type = "managed_object"
                    /\ \A m \in 1..(k - 1) : nodes[m].type # "managed_object"
         IN  [nodes EXCEPT ![c].x = Some(centerX), ![c].y = Some(centerY)]
    ELSE nodes

\* one pass of the outer loop, lines 868-911
simulationStep(nodes, edges) ==
    anchorCenter(attractFrom(repelFrom(nodes, 1, 2), edges, 1))

\* for (let i = 0; i < steps; i++) { one pass }: steps passes in a row, evaluated
\* by halving so that the evaluation stays shallow
RECURSIVE simulate(_, _, _)
simulate(nodes, edges, steps) ==
    IF steps = 0 THEN nodes
    ELSE IF steps = 1 THEN simulationStep(nodes, edges)
    ELSE LET half == simulate(nodes, edges, steps \div 2)
         IN  IF Len(half) = Len(nodes)
             THEN simulate(half, edges, steps - (steps \div 2))
             ELSE half

applyForceLayout(data) ==
    [nodes |-> simulate(initPositions(data.nodes), data.edges, LayoutIterations),
     edges |-> data.edges]

(***************************************************************************)
(* The inputs of the model.                                                *)
(***************************************************************************)
\* what the user types into the query input in Spec
TypedTexts == { <<>>, <<" ">>, <<"a">>, StrEvt001 }

\* the root names the generator is called with in SpecGen
GenRoots == { <<"a">>, <<"s", "v", "c", "-", "a">>, <<" ", "a">>, <<"a", "-", "a", "p", "i">>,
              StrEvt001, StrEvt002, StrDep001 }

\* how a fetch can end: response.ok with a body that parses, response.ok false,
\* fetch() rejecting, response.ok with response.json() rejecting
Outcomes == {"ok", "not_ok", "rejected", "bad_body"}

\* bodies a successful response can carry
ApiBodies == {"empty_object", "graph_json"}

\* getBoundingClientRect() of the canvas, which lies under the 80px header
canvasRect == [left |-> 0, top |-> 80]

\* pointer positions (clientX, clientY)
Points == { [x |-> 430, y |-> 380], [x |-> 700, y |-> 100], [x |-> 10, y |-> 90] }

\* e.deltaY of a wheel event
WheelDeltas == {-100, 0, 100}

\* the handler that ran last and the event it received: the typed root, outcome and
\* timestamp of a settled fetch, the clientX/clientY of a pointer event, the deltaY
\* of a wheel event, for a drag the pointer-down that began it, and the number of
\* layout passes the renders of the handler ran
NoOp == [op |-> "mount", root |-> <<>>, outcome |-> "none", now |-> 0,
         point |-> <<>>, deltaY |-> <<>>, drag |-> <<>>, layouts |-> 0]

(***************************************************************************)
(* The state after the component has mounted: the useState initial values; *)
(* both effects have run once on the empty graph.                          *)
(***************************************************************************)
InitExplorer ==
    /\ managedObject = <<>>
    /\ graphData = [nodes |-> <<>>, edges |-> <<>>]
    /\ loading = FALSE
    /\ selectedNode = None
    /\ zoom = ZoomScale
    /\ pan = [x |-> 0, y |-> 0]
    /\ isDragging = FALSE
    /\ dragStart = [x |-> 0, y |-> 0]
    /\ pending = <<>>
    /\ layoutDep = 0
    /\ fetches = 0
    /\ lastSubmitted = None
    /\ zoomOps = 0
    /\ panOps = 0
    /\ lastOp = NoOp

InitLayout ==
    /\ lnodes = <<>>
    /\ ledges = <<>>
    /\ lstep = 0
    /\ lpc = "idle"

\* KnowledgeManager as mounted, lines 11-18: loadNodes has not settled yet
InitManager ==
    /\ kmNodes = <<>>
    /\ kmSelectedNode = None
    /\ kmDeletes = <<>>
    /\ kmDeleted = {}

Init ==
    /\ InitExplorer
    /\ InitLayout
    /\ InitManager
    /\ genRoot = <<>>
    /\ genOut = <<>>
    /\ clock = 0

(***************************************************************************)
(* The query.                                                              *)
(***************************************************************************)
\* applyForceLayout on the graphs the generator returns for the inputs of Spec,
\* computed once
layoutTable ==
    [data \in { generateMockGraphData(root, now) : root \in TypedTexts,
                                                    now \in 0..MaxClock } |->
        applyForceLayout(data)]

layoutOf(data) ==
    IF data \in DOMAIN layoutTable THEN layoutTable[data] ELSE applyForceLayout(data)

\* a mutant of the layout effect: no dependency array, it runs after every render
layoutEffectEveryRender(data, dep) ==
    IF Len(data.nodes) > 0
    THEN layoutOf(data)
    ELSE data

\* a mutant of the effect's trigger: every render of a non-empty graph lays it out
layoutEffectFiresAlways(length, dep) == length > 0

\* whether a render runs the body of the layout effect, lines 1100-1105: the
\* dependency graphData.nodes.length changed, and the graph has nodes
layoutEffectFires(length, dep) == length # dep /\ length > 0

\* the layout effect, lines 1100-1105: it runs when graphData.nodes.length differs
\* from the value it saw last, lays the graph out and stores the result
layoutEffect(data, dep) ==
    IF layoutEffectFires(Len(data.nodes), dep)
    THEN layoutOf(data)
    ELSE data

\* the number of layout passes in the renders that follow one state update: a pass
\* ends in setGraphData(layoutData) (line 1103), which renders again with the
\* same node count; at most renders renders are followed
RECURSIVE layoutPasses(_, _, _)
layoutPasses(length, dep, renders) ==
    IF renders = 0 \/ ~layoutEffectFires(length, dep)
    THEN 0
    ELSE 1 + layoutPasses(length, length, renders - 1)

\* the record of a handler that left graphData alone
Op(name) ==
    [NoOp EXCEPT !.op = name,
                 !.layouts = layoutPasses(Len(graphData.nodes), layoutDep, MaxRenders)]

\* the render that follows a handler which left graphData alone: the layout effect
\* is offered the same graph again
rendered ==
    /\ graphData' = layoutEffect(graphData, layoutDep)
    /\ layoutDep' = Len(graphData.nodes)

\* onChange of the query input, line 1126
setManagedObject ==
    /\ \E text \in TypedTexts : managedObject' = text
    /\ lastOp' = Op("input")
    /\ rendered
    /\ UNCHANGED <<loading, selectedNode, zoom, pan, isDragging, dragStart,
                   pending, fetches, lastSubmitted, zoomOps, panOps>>
    /\ UNCHANGED <<layoutVars, genVars, managerVars>>

\* a mutant of the guard: the text is not trimmed
isBlankUntrimmed(text) == text = <<>>

\* the guard of queryManagedObject, line 677: !managedObject.trim()
isBlank(text) == trim(text) = <<>>

\* queryManagedObject up to its await (lines 676-691); it is bound to the Enter key
\* of the input (line 1129) and to the button (line 1132)
queryManagedObject ==
    /\ lastOp' = Op("query")
    /\ IF isBlank(managedObject)
       THEN UNCHANGED <<loading, pending, fetches, lastSubmitted>>
       ELSE /\ fetches < MaxQueries
            /\ loading' = TRUE
            /\ pending' = Append(pending, managedObject)
            /\ fetches' = fetches + 1
            /\ lastSubmitted' = Some(managedObject)
    /\ rendered
    /\ UNCHANGED <<managedObject, selectedNode, zoom, pan, isDragging,
                   dragStart, zoomOps, panOps>>
    /\ UNCHANGED <<layoutVars, genVars, managerVars>>

\* a mutant of the fallback: a failed fetch leaves an empty graph
fetchedGraphNoFallback(root, outcome, apiData, now) ==
    IF outcome = "ok"
    THEN generateGraphData(root, apiData, now)
    ELSE [nodes |-> <<>>, edges |-> <<>>]

\* the graph a settled fetch hands to setGraphData, lines 693-703
fetchedGraph(root, outcome, apiData, now) ==
    IF outcome = "ok"
    THEN generateGraphData(root, apiData, now)
    ELSE generateMockGraphData(root, now)

\* queryManagedObject from its await on (lines 693-705), the render it causes and
\* the layout effect of that render
querySettle ==
    \E k \in 1..Len(pending), outcome \in Outcomes, apiData \in ApiBodies,
       now \in 0..MaxClock :
        LET root == pending[k]
            data == fetchedGraph(root, outcome, apiData, now)
        IN  /\ graphData' = layoutEffect(data, layoutDep)
            /\ layoutDep' = Len(data.nodes)
            /\ loading' = FALSE
            /\ pending' = [m \in 1..(Len(pending) - 1) |->
                              IF m < k THEN pending[m] ELSE pending[m + 1]]
            /\ lastOp' = [NoOp EXCEPT
                              !.op = "settle", !.root = root,
                              !.outcome = outcome, !.now = now,
                              !.layouts = layoutPasses(Len(data.nodes), layoutDep,
                                                       MaxRenders)]
            /\ UNCHANGED <<managedObject, selectedNode, zoom, pan, isDragging,
                           dragStart, fetches, lastSubmitted, zoomOps, panOps>>
            /\ UNCHANGED <<layoutVars, genVars, managerVars>>

(***************************************************************************)
(* The pointer handlers.                                                   *)
(***************************************************************************)
RadiusManagedObject == 30
RadiusNode == 20

\* node.x || 0
orZero(coordinate) == IF coordinate = None THEN 0 ELSE coordinate[1]

nodeRadius(node) ==
    IF node.type = "managed_object" THEN RadiusManagedObject ELSE RadiusNode

\* the screen-to-model transform of handleMouseDown, lines 1054-1055
screenToModel(client, origin, offset, scale) ==
    Quot((client - origin - offset) * PosScale * ZoomScale, scale)

\* the predicate of graphData.nodes.find in handleMouseDown, lines 1059-1062
hits(node, x, y) ==
    LET dx == x - orZero(node.x)
        dy == y - orZero(node.y)
        radius == nodeRadius(node) * PosScale
    IN  /\ dx <= radius /\ -dx <= radius
        /\ dy <= radius /\ -dy <= radius
        /\ dx * dx + dy * dy <= radius * radius

\* graphData.nodes.find(...), lines 1058-1063: <<>> or the first node hit
clickedNodeAt(nodes, x, y) ==
    IF \E k \in 1..Len(nodes) : hits(nodes[k], x, y)
    THEN Some(nodes[CHOOSE k \in 1..Len(nodes) :
                        /\ hits(nodes[k], x, y)
                        /\ \A m \in 1..(k - 1) : ~hits(nodes[m], x, y)])
    ELSE None

\* a mutant of the drag origin: the pan offset is not subtracted
dragOriginAbsolute(e, offset) == [x |-> e.x, y |-> e.y]

\* the argument of setDragStart, line 1070
dragOrigin(e, offset) == [x |-> e.x - offset.x, y |-> e.y - offset.y]

\* a mutant of the selection on empty space: the selection is kept
selectionOnDownKept(clickedNode, current) ==
    IF clickedNode # None THEN clickedNode ELSE current

\* the argument of setSelectedNode, lines 1065-1068
selectionOnDown(clickedNode, current) ==
    IF clickedNode # None THEN clickedNode ELSE None

\* handleMouseDown, lines 1049-1072
handleMouseDown ==
    \E e \in Points :
        LET x == screenToModel(e.x, canvasRect.left, pan.x, zoom)
            y == screenToModel(e.y, canvasRect.top, pan.y, zoom)
            clickedNode == clickedNodeAt(graphData.nodes, x, y)
        IN  /\ selectedNode' = selectionOnDown(clickedNode, selectedNode)
            /\ IF clickedNode # None
               THEN UNCHANGED <<isDragging, dragStart>>
               ELSE /\ isDragging' = TRUE
                    /\ dragStart' = dragOrigin(e, pan)
            /\ lastOp' = [Op("mouseDown") EXCEPT
                              !.point = Some(e),
                              !.drag = Some([point |-> e, pan |-> pan, zoom |-> zoom])]
            /\ rendered
            /\ UNCHANGED <<managedObject, loading, zoom, pan, pending, fetches, lastSubmitted,
                           zoomOps, panOps>>
            /\ UNCHANGED <<layoutVars, genVars, managerVars>>

\* a mutant of the move: the pan follows the pointer whether or not a drag is on
panAfterMoveAlways(e, dragging, start, current) ==
    [x |-> e.x - start.x, y |-> e.y - start.y]

\* the pan handleMouseMove leaves, lines 1075-1080
panAfterMove(e, dragging, start, current) ==
    IF dragging
    THEN [x |-> e.x - start.x, y |-> e.y - start.y]
    ELSE current

\* handleMouseMove, lines 1074-1081; at most limit moves of a drag are followed
handleMouseMove(limit) ==
    \E e \in Points :
        /\ pan' = panAfterMove(e, isDragging, dragStart, pan)
        /\ IF isDragging
           THEN /\ panOps < limit
                /\ panOps' = panOps + 1
           ELSE UNCHANGED panOps
        /\ lastOp' = [Op("mouseMove") EXCEPT
                          !.point = Some(e),
                          !.drag = IF lastOp.op \in {"mouseDown", "mouseMove"}
                                   THEN lastOp.drag
                                   ELSE None]
        /\ rendered
        /\ UNCHANGED <<managedObject, loading, selectedNode, zoom, isDragging,
                       dragStart, pending, fetches, lastSubmitted, zoomOps>>
        /\ UNCHANGED <<layoutVars, genVars, managerVars>>

\* handleMouseUp, lines 1083-1085
handleMouseUp ==
    /\ isDragging' = FALSE
    /\ lastOp' = Op("mouseUp")
    /\ rendered
    /\ UNCHANGED <<managedObject, loading, selectedNode, zoom, pan,
                   dragStart, pending, fetches, lastSubmitted, zoomOps, panOps>>
    /\ UNCHANGED <<layoutVars, genVars, managerVars>>

(***************************************************************************)
(* The zoom.  0.1 and 3 are ZoomMin and ZoomMax in fixed point.            *)
(***************************************************************************)
ZoomMin == ZoomScale \div 10
ZoomMax == 3 * ZoomScale

max(a, b) == IF a >= b THEN a ELSE b
min(a, b) == IF a <= b THEN a ELSE b

\* a mutant of the wheel updater: the direction is swapped
wheelZoomInverted(prev, deltaY) ==
    IF deltaY > 0 THEN max(ZoomMin, min(ZoomMax, Quot(prev * 11, 10)))
    ELSE max(ZoomMin, min(ZoomMax, Quot(prev * 9, 10)))

\* a mutant of the wheel updater: the lower clamp is missing
wheelZoomNoFloor(prev, deltaY) ==
    IF deltaY > 0 THEN min(ZoomMax, Quot(prev * 9, 10))
    ELSE min(ZoomMax, Quot(prev * 11, 10))

\* the updater of handleWheel, lines 1089-1090:
\* Math.max(0.1, Math.min(3, prev * (e.deltaY > 0 ? 0.9 : 1.1)))
wheelZoom(prev, deltaY) ==
    IF deltaY > 0 THEN max(ZoomMin, min(ZoomMax, Quot(prev * 9, 10)))
    ELSE max(ZoomMin, min(ZoomMax, Quot(prev * 11, 10)))

\* the updater of the zoom-in button, line 1149: Math.min(3, prev * 1.2)
zoomInZoom(prev) == min(ZoomMax, Quot(prev * 12, 10))

\* the updater of the zoom-out button, line 1156: Math.max(0.1, prev / 1.2)
zoomOutZoom(prev) == max(ZoomMin, Quot(prev * 10, 12))

zoomFrame ==
    /\ rendered
    /\ UNCHANGED <<managedObject, loading, selectedNode, pan, isDragging,
                   dragStart, pending, fetches, lastSubmitted, panOps>>
    /\ UNCHANGED <<layoutVars, genVars, managerVars>>

\* handleWheel, lines 1087-1091
handleWheel(limit) ==
    /\ zoomOps < limit
    /\ \E deltaY \in WheelDeltas :
          /\ zoom' = wheelZoom(zoom, deltaY)
          /\ lastOp' = [Op("wheel") EXCEPT !.deltaY = Some(deltaY)]
    /\ zoomOps' = zoomOps + 1
    /\ zoomFrame

\* onClick of the zoom-in button, line 1149
zoomInClick(limit) ==
    /\ zoomOps < limit
    /\ zoom' = zoomInZoom(zoom)
    /\ zoomOps' = zoomOps + 1
    /\ lastOp' = Op("zoomIn")
    /\ zoomFrame

\* onClick of the zoom-out button, line 1156
zoomOutClick(limit) ==
    /\ zoomOps < limit
    /\ zoom' = zoomOutZoom(zoom)
    /\ zoomOps' = zoomOps + 1
    /\ lastOp' = Op("zoomOut")
    /\ zoomFrame

\* a mutant of the reset: the pan offset is kept
viewAfterResetKeepsPan(current) == [zoom |-> ZoomScale, pan |-> current.pan]

\* the arguments of setZoom and setPan in resetView, lines 1095-1096
viewAfterReset(current) == [zoom |-> ZoomScale, pan |-> [x |-> 0, y |-> 0]]

\* resetView, lines 1094-1097
resetView ==
    /\ zoom' = viewAfterReset([zoom |-> zoom, pan |-> pan]).zoom
    /\ pan' = viewAfterReset([zoom |-> zoom, pan |-> pan]).pan
    /\ lastOp' = Op("resetView")
    /\ rendered
    /\ UNCHANGED <<managedObject, loading, selectedNode, isDragging,
                   dragStart, pending, fetches, lastSubmitted, zoomOps, panOps>>
    /\ UNCHANGED <<layoutVars, genVars, managerVars>>

(***************************************************************************)
(* The explorer at the initial viewport: typing, querying, the settling of *)
(* the fetches in any order, and pointer presses on the canvas.            *)
(***************************************************************************)
Next ==
    \/ setManagedObject
    \/ queryManagedObject
    \/ querySettle
    \/ handleMouseDown
    \/ handleMouseUp

Spec == Init /\ [][Next]_vars

(***************************************************************************)
(* The zoom alone: any sequence of wheel events, toolbar clicks and resets *)
(* of at most MaxZoomSeq zoom changes.                                     *)
(***************************************************************************)
NextZoom ==
    \/ handleWheel(MaxZoomSeq)
    \/ zoomInClick(MaxZoomSeq)
    \/ zoomOutClick(MaxZoomSeq)
    \/ resetView

SpecZoom == Init /\ [][NextZoom]_vars

(***************************************************************************)
(* The viewport over a loaded graph.  The explorer starts where Spec leaves *)
(* it once the root "a" has been queried: after the first fetch settled    *)
(* the graph is laid out, after the second it carries no positions.  The   *)
(* zoom is 1 or has been driven to an end of its range.  Then any sequence *)
(* of pointer, wheel and toolbar events, of at most MaxViewOps further     *)
(* zoom changes and followed drag moves.                                   *)
(***************************************************************************)
ViewRoot == <<"a">>

\* the graph the first settled query leaves, and the graph the second one leaves
LoadedGraphs ==
    { [data |-> layoutOf(generateMockGraphData(ViewRoot, 0)), fetches |-> 1,
       layouts |-> 1],
      [data |-> generateMockGraphData(ViewRoot, 0), fetches |-> 2, layouts |-> 0] }

\* the zoom the view starts at: untouched, or driven to either end of its range
ViewZooms == {ZoomScale, ZoomMin, ZoomMax}

InitView ==
    /\ managedObject = ViewRoot
    /\ \E loaded \in LoadedGraphs :
          /\ graphData = loaded.data
          /\ fetches = loaded.fetches
          /\ lastOp = [NoOp EXCEPT !.op = "settle", !.root = ViewRoot,
                                   !.outcome = "ok", !.layouts = loaded.layouts]
    /\ layoutDep = Len(graphData.nodes)
    /\ loading = FALSE
    /\ selectedNode = None
    /\ zoom \in ViewZooms
    /\ pan = [x |-> 0, y |-> 0]
    /\ isDragging = FALSE
    /\ dragStart = [x |-> 0, y |-> 0]
    /\ pending = <<>>
    /\ lastSubmitted = Some(ViewRoot)
    /\ zoomOps = 0
    /\ panOps = 0
    /\ InitLayout
    /\ InitManager
    /\ genRoot = <<>>
    /\ genOut = <<>>
    /\ clock = 0

NextView ==
    \/ handleMouseDown
    \/ handleMouseMove(MaxViewOps - zoomOps)
    \/ handleMouseUp
    \/ handleWheel(MaxViewOps - panOps)
    \/ zoomInClick(MaxViewOps - panOps)
    \/ zoomOutClick(MaxViewOps - panOps)
    \/ resetView

SpecView == InitView /\ [][NextView]_vars

(***************************************************************************)
(* Loads and the viewport together.  The root "a" has been typed; then any  *)
(* interleaving of submitting, settling fetches, pointer and wheel events   *)
(* and resets, of at most MaxLoadOps zoom changes and followed drag moves.  *)
(***************************************************************************)
MaxLoadOps == MaxViewOps - 1

InitLoad ==
    /\ managedObject = ViewRoot
    /\ graphData = [nodes |-> <<>>, edges |-> <<>>]
    /\ loading = FALSE
    /\ selectedNode = None
    /\ zoom = ZoomScale
    /\ pan = [x |-> 0, y |-> 0]
    /\ isDragging = FALSE
    /\ dragStart = [x |-> 0, y |-> 0]
    /\ pending = <<>>
    /\ layoutDep = 0
    /\ fetches = 0
    /\ lastSubmitted = None
    /\ zoomOps = 0
    /\ panOps = 0
    /\ lastOp = [NoOp EXCEPT !.op = "input"]
    /\ InitLayout
    /\ InitManager
    /\ genRoot = <<>>
    /\ genOut = <<>>
    /\ clock = 0

NextLoad ==
    \/ queryManagedObject
    \/ querySettle
    \/ handleMouseDown
    \/ handleMouseMove(MaxLoadOps - zoomOps)
    \/ handleMouseUp
    \/ handleWheel(MaxLoadOps - panOps)
    \/ resetView

SpecLoad == InitLoad /\ [][NextLoad]_vars

(***************************************************************************)
(* The layout pass on its own, one pass of its outer loop at a time, on    *)
(* the graphs of LayoutInputs.                                             *)
(***************************************************************************)
plainNode(name, type) == Node(<<name>>, <<name>>, type, [status |-> "none"])

plainEdge(id, source, target) == Edge(id, <<source>>, <<target>>, "LINK", "link")

LayoutInputs ==
    { generateMockGraphData(<<"a">>, 0),
      generateMockGraphData(StrEvt001, 0),
      [nodes |-> <<>>, edges |-> <<>>],
      [nodes |-> <<plainNode("m", "managed_object")>>,
       edges |-> <<plainEdge("e1", "m", "m")>>],
      [nodes |-> <<plainNode("s", "service"), plainNode("m", "managed_object")>>,
       edges |-> <<plainEdge("e1", "s", "m"), plainEdge("e2", "s", "q")>>],
      [nodes |-> <<plainNode("e", "event"), plainNode("d", "dependency"),
                   plainNode("m", "managed_object"), plainNode("s", "service")>>,
       edges |-> <<plainEdge("e1", "e", "m"), plainEdge("e2", "m", "d"),
                   plainEdge("e3", "d", "s")>>],
      [nodes |-> <<plainNode("m", "managed_object"), plainNode("n", "managed_object")>>,
       edges |-> <<plainEdge("e1", "m", "n")>>],
      [nodes |-> <<plainNode("e", "event"), plainNode("s", "service"),
                   plainNode("d", "dependency")>>,
       edges |-> <<plainEdge("e1", "e", "s")>>] }

\* applyForceLayout up to the outer loop, lines 845-864
layoutCall ==
    /\ lpc = "idle"
    /\ \E data \in LayoutInputs :
          /\ lnodes' = initPositions(data.nodes)
          /\ ledges' = data.edges
    /\ lstep' = 0
    /\ lpc' = "loop"
    /\ UNCHANGED <<explorerVars, genVars, managerVars>>

\* a mutant of the loop counters: the pair loop shares the counter of the outer
\* loop (var i), which it leaves at nodes.length
outerIndexShared(i, length) == length + 1

\* i++ of the outer loop, line 867; the pair loop declares a counter of its own
\* (let i, line 869), so the body leaves the outer counter alone
outerIndexAfterPass(i, length) == i + 1

\* one pass of for (let i = 0; i < 100; i++), lines 867-912
layoutPass ==
    /\ lpc = "loop"
    /\ lstep < LayoutIterations
    /\ lnodes' = simulationStep(lnodes, ledges)
    /\ lstep' = outerIndexAfterPass(lstep, Len(lnodes))
    /\ UNCHANGED <<ledges, lpc>>
    /\ UNCHANGED <<explorerVars, genVars, managerVars>>

\* the loop condition fails: return { nodes, edges }, line 914
layoutReturn ==
    /\ lpc = "loop"
    /\ ~(lstep < LayoutIterations)
    /\ lpc' = "returned"
    /\ UNCHANGED <<lnodes, ledges, lstep>>
    /\ UNCHANGED <<explorerVars, genVars, managerVars>>

NextLayout ==
    \/ layoutCall
    \/ layoutPass
    \/ layoutReturn

SpecLayout == Init /\ [][NextLayout]_vars

(***************************************************************************)
(* The generator on its own: repeated calls with one root name while the   *)
(* clock advances.                                                         *)
(***************************************************************************)
InitGen ==
    /\ InitExplorer
    /\ InitLayout
    /\ InitManager
    /\ genRoot \in GenRoots
    /\ genOut = <<>>
    /\ clock = 0

\* a call generateMockGraphData(genRoot)
genCall ==
    /\ Len(genOut) < MaxGenCalls
    /\ genOut' = Append(genOut, generateMockGraphData(genRoot, clock))
    /\ UNCHANGED <<genRoot, clock>>
    /\ UNCHANGED <<explorerVars, layoutVars, managerVars>>

\* time passes between calls
genTick ==
    /\ clock < MaxGenClock
    /\ clock' = clock + 1
    /\ UNCHANGED <<genRoot, genOut>>
    /\ UNCHANGED <<explorerVars, layoutVars, managerVars>>

NextGen ==
    \/ genCall
    \/ genTick

SpecGen == InitGen /\ [][NextGen]_vars

(***************************************************************************)
(* KnowledgeManager: the node list and its deletions.  loadNodes has        *)
(* settled with the nodes of ListedNodes; then cards are selected, deletes  *)
(* are confirmed or declined, and the delete requests settle in any order.  *)
(***************************************************************************)
KnowledgeNode(id, name) == [id |-> id, name |-> name]

\* what knowledgeApi.list() resolved with, lines 52-53
ListedNodes ==
    << KnowledgeNode("n1", "first"), KnowledgeNode("n2", "second"),
       KnowledgeNode("n3", "third") >>

InitLoadedManager ==
    /\ kmNodes = ListedNodes
    /\ kmSelectedNode = None
    /\ kmDeletes = <<>>
    /\ kmDeleted = {}
    /\ InitExplorer
    /\ InitLayout
    /\ genRoot = <<>>
    /\ genOut = <<>>
    /\ clock = 0

\* NodeCard onClick and the view button, lines 98 and 121-124
selectNode ==
    \E k \in 1..Len(kmNodes) :
        /\ kmSelectedNode' = Some(kmNodes[k])
        /\ UNCHANGED <<kmNodes, kmDeletes, kmDeleted>>
        /\ UNCHANGED <<explorerVars, layoutVars, genVars>>

\* nodes.filter(node => node.id !== id), line 83
withoutNode(nodes, id) == SelectSeq(nodes, LAMBDA node : node.id # id)

\* handleDeleteNode(node.id) up to its await, lines 78-82, called from the
\* delete button of a card of the current render: the request is sent and the
\* continuation keeps the nodes and selectedNode of that render
handleDeleteNode ==
    \E k \in 1..Len(kmNodes), confirmed \in BOOLEAN :
        /\ IF ~confirmed
           THEN UNCHANGED kmDeletes
           ELSE /\ Len(kmDeletes) + Cardinality(kmDeleted) < MaxDeletes
                /\ kmDeletes' = Append(kmDeletes,
                                       [id |-> kmNodes[k].id, nodes |-> kmNodes,
                                        selectedNode |-> kmSelectedNode])
        /\ UNCHANGED <<kmNodes, kmSelectedNode, kmDeleted>>
        /\ UNCHANGED <<explorerVars, layoutVars, genVars>>

\* handleDeleteNode from its await on, lines 82-89: the request settles
deleteSettle ==
    \E k \in 1..Len(kmDeletes), succeeded \in BOOLEAN :
        LET call == kmDeletes[k]
        IN  /\ kmDeletes' = SubSeq(kmDeletes, 1, k - 1)
                                \o SubSeq(kmDeletes, k + 1, Len(kmDeletes))
            /\ IF succeeded
               THEN /\ kmNodes' = withoutNode(call.nodes, call.id)
                    /\ kmSelectedNode' =
                          IF call.selectedNode # None /\ call.selectedNode[1].id = call.id
                          THEN None
                          ELSE kmSelectedNode
                    /\ kmDeleted' = kmDeleted \cup {call.id}
               ELSE UNCHANGED <<kmNodes, kmSelectedNode, kmDeleted>>
            /\ UNCHANGED <<explorerVars, layoutVars, genVars>>

NextManager ==
    \/ selectNode
    \/ handleDeleteNode
    \/ deleteSettle

SpecManager == InitLoadedManager /\ [][NextManager]_vars

(***************************************************************************)
(* Properties.                                                             *)
(***************************************************************************)
idsOf(nodes) == {nodes[k].id : k \in 1..Len(nodes)}

countOfType(nodes, type) == Cardinality({k \in 1..Len(nodes) : nodes[k].type = type})

countOfEdgeType(edges, type) == Cardinality({k \in 1..Len(edges) : edges[k].type = type})

withoutPositions(data) ==
    [nodes |-> [k \in 1..Len(data.nodes) |->
                   [data.nodes[k] EXCEPT !.x = None, !.y = None]],
     edges |-> data.edges]

onlyWhitespace(text) == \A k \in 1..Len(text) : text[k] \in WhiteSpace

fetchFailed(outcome) == outcome \in {"not_ok", "rejected", "bad_body"}

\* C1: whenever a settled query has just replaced the graph, the selection is none.
SelectionClearedByQuery ==
    lastOp.op = "settle" => selectedNode = None

\* C2: whenever a settled query has just replaced the graph, every node of the
\* current graph has a position assigned by the layout pass.
EveryNodePlacedAfterQuery ==
    lastOp.op = "settle" =>
        \A k \in 1..Len(graphData.nodes) :
            graphData.nodes[k].x # None /\ graphData.nodes[k].y # None

\* C3: in every state reached by wheel events, toolbar zoom clicks and resets,
\* 0.1 <= zoom <= 3.
ZoomWithinClamp ==
    /\ zoom * 10 >= ZoomScale
    /\ zoom <= 3 * ZoomScale

ZoomClampedAtFloorByWheel ==
    /\ zoom * 10 = ZoomScale
    /\ lastOp.op = "wheel"
    /\ zoomOps > 1

\* C4: when the graph being laid out has exactly one managed_object node, that
\* node is at (400, 300) at the end of every pass of the simulation loop and when
\* the layout returns.
CenterNodeAnchored ==
    (lpc # "idle" /\ lstep >= 1 /\ countOfType(lnodes, "managed_object") = 1) =>
        \A k \in 1..Len(lnodes) :
            lnodes[k].type = "managed_object" =>
                /\ lnodes[k].x = Some((width \div 2) * PosScale)
                /\ lnodes[k].y = Some((height \div 2) * PosScale)

CenterNodeAnchoredAtReturn ==
    /\ lpc = "returned"
    /\ lstep = LayoutIterations
    /\ countOfType(lnodes, "managed_object") = 1
    /\ Len(lnodes) > 1
    /\ lnodes[1].type # "managed_object"
    /\ \A k \in 1..Len(lnodes) :
            lnodes[k].type = "managed_object" => lnodes[k].x = Some(centerX)
    /\ lnodes # initPositions(lnodes)

\* C5: the node ids of every graph the generator returns are pairwise distinct.
GeneratedIdsDistinct ==
    \A c \in 1..Len(genOut) :
        \A k, m \in 1..Len(genOut[c].nodes) :
            k # m => genOut[c].nodes[k].id # genOut[c].nodes[m].id

\* C6: in every graph the explorer holds, each edge's source and target are ids
\* of nodes of that graph.
EdgesReferToNodes ==
    \A k \in 1..Len(graphData.edges) :
        /\ graphData.edges[k].source \in idsOf(graphData.nodes)
        /\ graphData.edges[k].target \in idsOf(graphData.nodes)

EdgesReferToNodesHeld ==
    /\ Len(graphData.edges) > 0
    /\ \E k \in 1..Len(graphData.nodes) : graphData.nodes[k].x # None
    /\ \A k \in 1..Len(graphData.edges) :
          graphData.edges[k].target \in idsOf(graphData.nodes)

\* C7: any two calls of the generator with the same root name return the same
\* sequence of node ids and kinds and the same edges (id, source, target, kind),
\* whatever the time of each call.
GeneratorDeterministic ==
    \A c, d \in 1..Len(genOut) :
        /\ Len(genOut[c].nodes) = Len(genOut[d].nodes)
        /\ \A k \in 1..Len(genOut[c].nodes) :
              /\ genOut[c].nodes[k].id = genOut[d].nodes[k].id
              /\ genOut[c].nodes[k].type = genOut[d].nodes[k].type
        /\ Len(genOut[c].edges) = Len(genOut[d].edges)
        /\ \A k \in 1..Len(genOut[c].edges) :
              /\ genOut[c].edges[k].id = genOut[d].edges[k].id
              /\ genOut[c].edges[k].source = genOut[d].edges[k].source
              /\ genOut[c].edges[k].target = genOut[d].edges[k].target
              /\ genOut[c].edges[k].type = genOut[d].edges[k].type

GeneratorCalledTwiceAtDifferentTimes ==
    /\ Len(genOut) = 2
    /\ genOut[1] # genOut[2]
    /\ idsOf(genOut[1].nodes) = idsOf(genOut[2].nodes)

\* C8: after a query for root r whose fetch found no backing service, the graph
\* has exactly 7 nodes (one managed_object with id r, the services r-api, r-db and
\* r-cache, two events, one dependency) and exactly 6 edges (three MANAGES from r
\* to the three services, two AFFECTS, one DEPENDS_ON).
MockGraphShape ==
    (lastOp.op = "settle" /\ lastOp.outcome \in {"not_ok", "rejected"}) =>
        LET nodes == graphData.nodes
            edges == graphData.edges
            r == lastOp.root
        IN  /\ Len(nodes) = 7
            /\ countOfType(nodes, "managed_object") = 1
            /\ \A k \in 1..Len(nodes) : nodes[k].type = "managed_object" => nodes[k].id = r
            /\ countOfType(nodes, "service") = 3
            /\ {nodes[k].id : k \in {m \in 1..Len(nodes) : nodes[m].type = "service"}}
                   = {r \o StrApi, r \o StrDb, r \o StrCache}
            /\ countOfType(nodes, "event") = 2
            /\ countOfType(nodes, "dependency") = 1
            /\ Len(edges) = 6
            /\ countOfEdgeType(edges, "MANAGES") = 3
            /\ \A k \in 1..Len(edges) : edges[k].type = "MANAGES" => edges[k].source = r
            /\ {edges[k].target : k \in {m \in 1..Len(edges) : edges[m].type = "MANAGES"}}
                   = {r \o StrApi, r \o StrDb, r \o StrCache}
            /\ countOfEdgeType(edges, "AFFECTS") = 2
            /\ countOfEdgeType(edges, "DEPENDS_ON") = 1

MockGraphShapeAfterRejectedFetch ==
    /\ lastOp.op = "settle"
    /\ lastOp.outcome = "rejected"
    /\ lastOp.root = <<"a">>
    /\ Len(graphData.nodes) = 7
    /\ Len(graphData.edges) = 6

\* C9: when the fetch of a query has failed (it threw, the response was not a
\* success, or the body did not parse), the settled query leaves the synthetic
\* graph of the submitted root as the current graph (positions aside) and
\* loading = false.
FallbackOnFetchFailure ==
    (lastOp.op = "settle" /\ fetchFailed(lastOp.outcome)) =>
        /\ withoutPositions(graphData) = generateMockGraphData(lastOp.root, lastOp.now)
        /\ loading = FALSE

FallbackAfterUnparsableBody ==
    /\ lastOp.op = "settle"
    /\ lastOp.outcome = "bad_body"
    /\ Len(pending) > 0
    /\ lastOp.root # managedObject
    /\ Len(graphData.nodes) > 0
    /\ loading = FALSE

\* C10: submitting the query while the input is empty or holds only whitespace
\* attempts no fetch and leaves the graph, the selection, the viewport and the
\* loading flag unchanged.
BlankQueryIsNoOp ==
    [][(lastOp'.op = "query" /\ onlyWhitespace(managedObject)) =>
          UNCHANGED <<graphData, selectedNode, zoom, pan, loading, pending, fetches>>]_vars

BlankQuerySubmittedOverLoadedGraph ==
    /\ lastOp.op = "query"
    /\ managedObject = <<" ">>
    /\ Len(graphData.nodes) > 0
    /\ selectedNode # None
    /\ loading = TRUE

(***************************************************************************)
(* The viewport transform of drawGraph.                                    *)
(***************************************************************************)
\* a mutant of the render transform: the scale is applied before the translation
modelToCanvasScaleFirst(m, offset, scale) ==
    Quot((m + offset * PosScale) * scale, PosScale * ZoomScale)

\* ctx.translate(pan.x, pan.y); ctx.scale(zoom, zoom), lines 930-931: the canvas
\* pixel a model coordinate is drawn at
modelToCanvas(m, offset, scale) ==
    Quot(m * scale, PosScale * ZoomScale) + offset

(***************************************************************************)
(* Helpers of the claims about the viewport.                               *)
(***************************************************************************)
\* the positions in node order of the nodes whose circle holds a screen point
nodesUnder(point, offset, scale) ==
    { k \in 1..Len(graphData.nodes) :
        hits(graphData.nodes[k],
             screenToModel(point.x, canvasRect.left, offset.x, scale),
             screenToModel(point.y, canvasRect.top, offset.y, scale)) }

abs(a) == IF a >= 0 THEN a ELSE -a

\* canvas coordinates sampled over the 800 x 600 canvas
SampleXs == { 7 * k : k \in 0..(width \div 7) }
SampleYs == { 7 * k : k \in 0..(height \div 7) }

\* the hit-test transform followed by the render transform, on one axis
roundTrip(c, offset, scale) ==
    modelToCanvas(screenToModel(c, 0, offset, scale), offset, scale)

\* C11: a pointer-down on empty space at pan (px, py) and zoom z, followed by
\* pointer-moves whose latest position is displaced by (dx, dy) from the
\* pointer-down position, leaves pan = (px + dx, py + dy) and zoom = z.
PanFollowsDrag ==
    (/\ lastOp.op = "mouseMove"
     /\ lastOp.drag # None
     /\ nodesUnder(lastOp.drag[1].point, lastOp.drag[1].pan, lastOp.drag[1].zoom) = {}) =>
        /\ pan.x = lastOp.drag[1].pan.x + (lastOp.point[1].x - lastOp.drag[1].point.x)
        /\ pan.y = lastOp.drag[1].pan.y + (lastOp.point[1].y - lastOp.drag[1].point.y)
        /\ zoom = lastOp.drag[1].zoom

DraggedFromPannedView ==
    /\ lastOp.op = "mouseMove"
    /\ lastOp.drag # None
    /\ nodesUnder(lastOp.drag[1].point, lastOp.drag[1].pan, lastOp.drag[1].zoom) = {}
    /\ lastOp.drag[1].pan # [x |-> 0, y |-> 0]
    /\ lastOp.point[1] # lastOp.drag[1].point
    /\ pan # lastOp.drag[1].pan

\* C12, as claimed: for every reachable zoom and pan and every canvas point p,
\* the hit-test transform followed by the render transform returns p.
RoundTripExact ==
    /\ \A c \in SampleXs : roundTrip(c, pan.x, zoom) = c
    /\ \A c \in SampleYs : roundTrip(c, pan.y, zoom) = c

\* C12, amended: the round trip returns p up to the rounding of the arithmetic,
\* which in this fixed-point model is less than one pixel per axis.
RoundTripWithinTolerance ==
    /\ \A c \in SampleXs : abs(roundTrip(c, pan.x, zoom) - c) <= 1
    /\ \A c \in SampleYs : abs(roundTrip(c, pan.y, zoom) - c) <= 1

HitTestInZoomedPannedView ==
    /\ lastOp.op = "mouseDown"
    /\ zoom # ZoomScale
    /\ pan.x # 0
    /\ pan.y # 0
    /\ Len(graphData.nodes) > 0

\* the last element of a non-empty set of positions
lastOf(positions) == CHOOSE k \in positions : \A m \in positions : m <= k

InteractionOps ==
    {"mouseDown", "mouseMove", "mouseUp", "wheel", "zoomIn", "zoomOut", "resetView"}

\* value clamped to the zoom range [0.1, 3]
clampZoom(value) ==
    IF value < ZoomMin THEN ZoomMin ELSE IF value > ZoomMax THEN ZoomMax ELSE value

\* C13: when the pointer-down point lies inside the circles of two or more
\* nodes, the node selected is the last of the matching nodes in node order,
\* the one drawn topmost.
LastMatchSelected ==
    (/\ lastOp.op = "mouseDown"
     /\ Cardinality(nodesUnder(lastOp.point[1], pan, zoom)) >= 2) =>
        selectedNode =
            Some(graphData.nodes[lastOf(nodesUnder(lastOp.point[1], pan, zoom))])

\* C14: resetView, in Idle or in Panning, sets zoom = 1 and pan = (0, 0) and
\* leaves the graph with its node positions, the selection and the
\* Idle/Panning state unchanged.
ResetViewFrame ==
    [][lastOp'.op = "resetView" =>
          /\ zoom' = ZoomScale
          /\ pan' = [x |-> 0, y |-> 0]
          /\ UNCHANGED <<graphData, selectedNode, isDragging>>]_vars

ResetWhilePanningWithSelection ==
    /\ lastOp.op = "resetView"
    /\ isDragging
    /\ selectedNode # None
    /\ panOps > 0
    /\ zoomOps > 0
    /\ zoom = ZoomScale
    /\ pan = [x |-> 0, y |-> 0]

\* C15: a pointer-down at a point inside no node's circle clears the
\* selection, switches to Panning and records the pointer position relative
\* to the pan offset; zoom and pan are unchanged.
PointerDownOnEmptySpace ==
    [][(/\ lastOp'.op = "mouseDown"
        /\ nodesUnder(lastOp'.point[1], pan, zoom) = {}) =>
          /\ selectedNode' = None
          /\ isDragging' = TRUE
          /\ dragStart' = [x |-> lastOp'.point[1].x - pan.x,
                           y |-> lastOp'.point[1].y - pan.y]
          /\ UNCHANGED <<zoom, pan>>]_vars

EmptySpacePressedInPannedView ==
    /\ lastOp.op = "mouseDown"
    /\ nodesUnder(lastOp.point[1], pan, zoom) = {}
    /\ Len(graphData.nodes) > 0
    /\ pan # [x |-> 0, y |-> 0]
    /\ zoom # ZoomScale
    /\ isDragging
    /\ selectedNode = None

\* C16: a pointer-down inside a node's circle (radius 30 for the
\* managed_object, 20 otherwise, boundary included) selects a node under the
\* pointer, leaves zoom and pan unchanged and leaves the controller Idle, in
\* every state in which a pointer-down can arrive.
PointerDownOnNodeStaysIdle ==
    [][(/\ lastOp'.op = "mouseDown"
        /\ nodesUnder(lastOp'.point[1], pan, zoom) # {}) =>
          /\ selectedNode' \in { Some(graphData.nodes[k]) :
                                   k \in nodesUnder(lastOp'.point[1], pan, zoom) }
          /\ UNCHANGED <<zoom, pan>>
          /\ isDragging' = FALSE]_vars

WheelFrame ==
    [][lastOp'.op = "wheel" =>
          /\ lastOp'.deltaY[1] > 0 => zoom' = clampZoom(Quot(zoom * 9, 10))
          /\ lastOp'.deltaY[1] < 0 => zoom' = clampZoom(Quot(zoom * 11, 10))
          /\ UNCHANGED <<pan, dragStart, isDragging, selectedNode, graphData>>]_vars

WheelWhilePanning ==
    /\ lastOp.op = "wheel"
    /\ lastOp.deltaY[1] > 0
    /\ isDragging
    /\ selectedNode # None
    /\ pan # [x |-> 0, y |-> 0]
    /\ zoom # ZoomScale

\* C19: no interaction event (pointer-down, pointer-move, pointer-up, wheel,
\* toolbar zoom, reset view) changes the graph: the node list with its ids,
\* kinds and positions, and the edge list.
GraphUntouchedByInteraction ==
    [][lastOp'.op \in InteractionOps => graphData' = graphData]_vars

InteractionOverUnplacedGraph ==
    /\ lastOp.op \in InteractionOps
    /\ panOps > 0
    /\ zoomOps > 0
    /\ selectedNode # None
    /\ Len(graphData.nodes) > 0
    /\ \A k \in 1..Len(graphData.nodes) : graphData.nodes[k].x = None

(***************************************************************************)
(* The renderer: drawGraph as the sequence of canvas calls that paint, in  *)
(* the order they are issued.  A call is the part painted, the id of the   *)
(* node or edge it belongs to, and its coordinates in model space.         *)
(***************************************************************************)
GridSize == 50
HaloMargin == 8
LabelOffset == 15
EdgeLabelLift == 5

DrawCall(part, of, args) == [part |-> part, of |-> of, args |-> args]

RECURSIVE flatten(_)
flatten(seqs) == IF seqs = <<>> THEN <<>> ELSE Head(seqs) \o flatten(Tail(seqs))

\* drawGrid, lines 954-972: the vertical lines, then the horizontal lines
drawGrid(w, h) ==
    [k \in 1..(w \div GridSize + 1) |->
        DrawCall("grid", <<>>, <<(k - 1) * GridSize, 0, (k - 1) * GridSize, h>>)]
    \o
    [k \in 1..(h \div GridSize + 1) |->
        DrawCall("grid", <<>>, <<0, (k - 1) * GridSize, w, (k - 1) * GridSize>>)]

\* drawEdge, lines 1005-1046: the line, the arrowhead at the target, the label
drawEdge(source, target, edge) ==
    LET sx == orZero(source.x)
        sy == orZero(source.y)
        tx == orZero(target.x)
        ty == orZero(target.y)
    IN  << DrawCall("edge-line", edge.id, <<sx, sy, tx, ty>>),
           DrawCall("edge-arrow", edge.id, <<tx, ty>>),
           DrawCall("edge-label", edge.id,
                    <<Quot(sx + tx, 2), Quot(sy + ty, 2) - EdgeLabelLift * PosScale>>) >>

\* drawNode, lines 975-1002: the halo if selected, the circle and its outline, the label
drawNode(node, isSelected) ==
    LET x == orZero(node.x)
        y == orZero(node.y)
        radius == nodeRadius(node) * PosScale
    IN  (IF isSelected
         THEN << DrawCall("halo", node.id, <<x, y, radius + HaloMargin * PosScale>>) >>
         ELSE <<>>)
        \o << DrawCall("circle", node.id, <<x, y, radius>>),
              DrawCall("outline", node.id, <<x, y, radius>>),
              DrawCall("label", node.id, <<x, y + radius + LabelOffset * PosScale>>) >>

\* the body of graphData.edges.forEach, lines 937-943
drawEdgeIfBound(nodes, edge) ==
    LET s == findById(nodes, edge.source)
        t == findById(nodes, edge.target)
    IN  IF s # 0 /\ t # 0 THEN drawEdge(nodes[s], nodes[t], edge) ELSE <<>>

\* selectedNode?.id === node.id, line 947
isSelectedNode(selected, node) == selected # None /\ selected[1].id = node.id

\* a mutant of drawGraph: the nodes are painted before the edges
drawGraphNodesFirst(data, selected, offset, scale) ==
    << DrawCall("clear", <<>>, <<0, 0, width, height>>),
       DrawCall("translate", <<>>, <<offset.x, offset.y>>),
       DrawCall("scale", <<>>, <<scale, scale>>) >>
    \o drawGrid(width, height)
    \o flatten([k \in 1..Len(data.nodes) |->
                   drawNode(data.nodes[k], isSelectedNode(selected, data.nodes[k]))])
    \o flatten([k \in 1..Len(data.edges) |-> drawEdgeIfBound(data.nodes, data.edges[k])])
    \o << DrawCall("restore", <<>>, <<>>) >>

\* drawGraph, lines 918-951
drawGraph(data, selected, offset, scale) ==
    << DrawCall("clear", <<>>, <<0, 0, width, height>>),
       DrawCall("translate", <<>>, <<offset.x, offset.y>>),
       DrawCall("scale", <<>>, <<scale, scale>>) >>
    \o drawGrid(width, height)
    \o flatten([k \in 1..Len(data.edges) |-> drawEdgeIfBound(data.nodes, data.edges[k])])
    \o flatten([k \in 1..Len(data.nodes) |->
                   drawNode(data.nodes[k], isSelectedNode(selected, data.nodes[k]))])
    \o << DrawCall("restore", <<>>, <<>>) >>

\* the canvas after the draw effect of the current render, lines 1108-1110
canvasCalls == drawGraph(graphData, selectedNode, pan, zoom)

(***************************************************************************)
(* Helpers of the claim about the draw order.                              *)
(***************************************************************************)
EdgeParts == {"edge-line", "edge-arrow", "edge-label"}
NodeParts == {"halo", "circle", "outline", "label"}

\* the layer a call paints: 1 the grid, 2 the edges, 3 the nodes; 0 and 4 the
\* calls around them
layerOf(call) ==
    IF call.part \in {"clear", "translate", "scale"} THEN 0
    ELSE IF call.part = "grid" THEN 1
    ELSE IF call.part \in EdgeParts THEN 2
    ELSE IF call.part \in NodeParts THEN 3
    ELSE 4

callsOfPart(calls, part) == { i \in 1..Len(calls) : calls[i].part = part }

boundEdges(data) ==
    { k \in 1..Len(data.edges) :
        /\ findById(data.nodes, data.edges[k].source) # 0
        /\ findById(data.nodes, data.edges[k].target) # 0 }

\* C20: in every render pass the grid is drawn first, then all edges (line,
\* arrowhead, label), then all nodes: no edge is drawn after any node, and a
\* selected node's halo is drawn before that node's own circle, so no edge is
\* drawn over a selection halo.
DrawOrder ==
    LET calls == canvasCalls
    IN  /\ \A i \in 1..(Len(calls) - 1) : layerOf(calls[i]) <= layerOf(calls[i + 1])
        /\ Cardinality(callsOfPart(calls, "grid")) > 0
        /\ Cardinality(callsOfPart(calls, "edge-line")) = Cardinality(boundEdges(graphData))
        /\ Cardinality(callsOfPart(calls, "circle")) = Len(graphData.nodes)
        /\ \A i \in callsOfPart(calls, "edge-line") :
              /\ calls[i + 1].part = "edge-arrow" /\ calls[i + 1].of = calls[i].of
              /\ calls[i + 2].part = "edge-label" /\ calls[i + 2].of = calls[i].of
        /\ \A i \in callsOfPart(calls, "halo") :
              /\ calls[i + 1].part = "circle" /\ calls[i + 1].of = calls[i].of
              /\ \A j \in (i + 1)..Len(calls) : layerOf(calls[j]) # 2
        /\ (selectedNode # None /\ findById(graphData.nodes, selectedNode[1].id) # 0) =>
              callsOfPart(calls, "halo") # {}

HaloDrawnOverEdges ==
    /\ callsOfPart(canvasCalls, "halo") # {}
    /\ callsOfPart(canvasCalls, "edge-line") # {}
    /\ zoom # ZoomScale
    /\ pan # [x |-> 0, y |-> 0]
    /\ lastOp.op = "mouseDown"

(***************************************************************************)
(* Helpers of the claims about the layout pass.                            *)
(***************************************************************************)
\* the graph under layout, positions aside
layoutInput == withoutPositions([nodes |-> lnodes, edges |-> ledges])

\* C21: the layout pass performs exactly 100 simulation steps and then
\* returns, for every input graph: the step counter starts at 0, every pass
\* applies one simulation step and advances the counter by one, and the
\* layout returns when the counter is 100 and not before.
ExactlyHundredSteps ==
    /\ [](lpc = "loop" => lstep \in 0..100)
    /\ [](lpc = "returned" => lstep = 100)
    /\ [][/\ (lpc = "idle" /\ lpc' = "loop") => lstep' = 0
          /\ (lpc = "loop" /\ lpc' = "loop") =>
                /\ lstep < 100
                /\ lstep' = lstep + 1
                /\ lnodes' = simulationStep(lnodes, ledges)
          /\ (lpc = "loop" /\ lpc' = "returned") =>
                /\ lstep = 100
                /\ UNCHANGED <<lnodes, ledges>>]_vars

ReturnedOnMissingEndpoint ==
    /\ lpc = "returned"
    /\ lstep = 100
    /\ Len(lnodes) > 1
    /\ \E k \in 1..Len(ledges) : findById(lnodes, ledges[k].target) = 0
    /\ lnodes = applyForceLayout(layoutInput).nodes

\* two nodes of an array at the same position
coincident(nodes, i, j) == nodes[i].x = nodes[j].x /\ nodes[i].y = nodes[j].y

\* the edges of the layout whose two endpoints are found at one position
edgesOfLengthZero(nodes, edges) ==
    { k \in 1..Len(edges) :
        /\ findById(nodes, edges[k].source) # 0
        /\ findById(nodes, edges[k].target) # 0
        /\ coincident(nodes, findById(nodes, edges[k].source),
                      findById(nodes, edges[k].target)) }

\* C22: a repulsion update of a pair of nodes at distance 0 and an attraction
\* update of an edge whose endpoints are at distance 0 (coincident nodes, a
\* self-loop) divide by nothing and leave every position unchanged; checked
\* on the array at the start of each pass and after its repulsion phase.
ZeroDistanceSkipped ==
    lpc = "loop" =>
        LET afterRepulsion == repelFrom(lnodes, 1, 2)
        IN  /\ \A i \in 1..Len(lnodes) : \A j \in (i + 1)..Len(lnodes) :
                  coincident(lnodes, i, j) => repelPair(lnodes, i, j) = lnodes
            /\ \A k \in edgesOfLengthZero(lnodes, ledges) :
                  attractEdge(lnodes, ledges[k]) = lnodes
            /\ \A k \in edgesOfLengthZero(afterRepulsion, ledges) :
                  attractEdge(afterRepulsion, ledges[k]) = afterRepulsion

CoincidentPairJoinedByEdge ==
    /\ lpc = "loop"
    /\ lstep >= 1
    /\ \E i \in 1..Len(lnodes) : \E j \in (i + 1)..Len(lnodes) :
          /\ coincident(lnodes, i, j)
          /\ \E k \in edgesOfLengthZero(lnodes, ledges) :
                /\ ledges[k].source = lnodes[i].id
                /\ ledges[k].target = lnodes[j].id

\* the square of the distance of node k from the center of the canvas
fromCenterSquared(nodes, k) ==
    (nodes[k].x[1] - (width \div 2) * PosScale) * (nodes[k].x[1] - (width \div 2) * PosScale)
    + (nodes[k].y[1] - (height \div 2) * PosScale) * (nodes[k].y[1] - (height \div 2) * PosScale)

\* every node of the first kind lies nearer the center than every node of the second
placedInside(nodes, inner, outer) ==
    \A i, j \in 1..Len(nodes) :
        (nodes[i].type = inner /\ nodes[j].type = outer) =>
            fromCenterSquared(nodes, i) < fromCenterSquared(nodes, j)

managedObjectsAtCenter(nodes) ==
    \A k \in 1..Len(nodes) :
        nodes[k].type = "managed_object" => fromCenterSquared(nodes, k) = 0

\* the layout has just placed its nodes and has run no pass yet
justPlaced == lpc = "loop" /\ lstep = 0

\* C23: when the layout returns, no two distinct nodes have the same position,
\* for every input graph.
AllNodesSeparated ==
    lpc = "returned" =>
        \A i \in 1..Len(lnodes) : \A j \in (i + 1)..Len(lnodes) :
            ~coincident(lnodes, i, j)

\* C24, as claimed: in the initial placement service nodes lie nearer the center
\* than event nodes, event nodes nearer than dependency nodes, and the
\* managed_object is at the center.
ServiceInsideEventPlacement ==
    justPlaced =>
        /\ placedInside(lnodes, "service", "event")
        /\ placedInside(lnodes, "event", "dependency")
        /\ managedObjectsAtCenter(lnodes)

\* C24, amended: in the initial placement event nodes lie nearer the center
\* than service nodes, service nodes nearer than dependency nodes, and the
\* managed_object is at the center.
EventInsideServicePlacement ==
    justPlaced =>
        /\ placedInside(lnodes, "event", "service")
        /\ placedInside(lnodes, "service", "dependency")
        /\ managedObjectsAtCenter(lnodes)

AllKindsJustPlaced ==
    /\ justPlaced
    /\ countOfType(lnodes, "service") > 0
    /\ countOfType(lnodes, "event") > 0
    /\ countOfType(lnodes, "dependency") > 0
    /\ countOfType(lnodes, "managed_object") > 0

\* C25: the layout pass changes only node positions: at every point of the
\* pass and when it returns, the nodes in their order with their ids, labels,
\* kinds and properties, and the edges, are those of the input graph.
LayoutChangesPositionsOnly ==
    /\ [](lpc # "idle" => layoutInput \in LayoutInputs)
    /\ [][lpc # "idle" => UNCHANGED layoutInput]_vars

LaidOutGraphMoved ==
    /\ lpc = "returned"
    /\ Len(lnodes) > 2
    /\ Len(ledges) > 1
    /\ lnodes # initPositions(layoutInput.nodes)
    /\ \A k \in 1..Len(lnodes) : lnodes[k].x # None /\ lnodes[k].y # None

RECURSIVE sumOver(_, _)
sumOver(values, k) == IF k = 0 THEN 0 ELSE values[k] + sumOver(values, k - 1)

\* the sum of the x coordinates and the sum of the y coordinates of an array
coordinateSum(nodes) ==
    << sumOver([k \in 1..Len(nodes) |-> nodes[k].x[1]], Len(nodes)),
       sumOver([k \in 1..Len(nodes) |-> nodes[k].y[1]], Len(nodes)) >>

\* an update moved nodes i and j by opposite displacements and no other node
oppositeMoves(before, after, i, j) ==
    /\ after[i].x[1] - before[i].x[1] = -(after[j].x[1] - before[j].x[1])
    /\ after[i].y[1] - before[i].y[1] = -(after[j].y[1] - before[j].y[1])
    /\ \A k \in 1..Len(before) : k \notin {i, j} => after[k] = before[k]

\* C27: every repulsion update of a pair and every attraction update of an
\* edge moves its two nodes by equal and opposite displacements, so the
\* repulsion phase and the attraction phase of a step leave the sum of the
\* node coordinates unchanged.
UpdatesEqualAndOpposite ==
    lpc = "loop" =>
        LET afterRepulsion == repelFrom(lnodes, 1, 2)
            afterAttraction == attractFrom(afterRepulsion, ledges, 1)
        IN  /\ \A i \in 1..Len(lnodes) : \A j \in (i + 1)..Len(lnodes) :
                  oppositeMoves(lnodes, repelPair(lnodes, i, j), i, j)
            /\ \A k \in 1..Len(ledges) :
                  LET source == findById(afterRepulsion, ledges[k].source)
                      target == findById(afterRepulsion, ledges[k].target)
                  IN  IF source # 0 /\ target # 0 /\ source # target
                      THEN oppositeMoves(afterRepulsion,
                                         attractEdge(afterRepulsion, ledges[k]),
                                         source, target)
                      ELSE attractEdge(afterRepulsion, ledges[k]) = afterRepulsion
            /\ coordinateSum(afterRepulsion) = coordinateSum(lnodes)
            /\ coordinateSum(afterAttraction) = coordinateSum(afterRepulsion)

AnchorAloneShiftsTheSum ==
    /\ lpc = "loop"
    /\ lstep < LayoutIterations
    /\ repelFrom(lnodes, 1, 2) # lnodes
    /\ attractFrom(repelFrom(lnodes, 1, 2), ledges, 1) # repelFrom(lnodes, 1, 2)
    /\ coordinateSum(simulationStep(lnodes, ledges)) # coordinateSum(lnodes)

\* C26: a layout pass is executed only as a consequence of a graph load: the
\* renders that follow one handler run at most one pass, only a settled query
\* runs one (a pan, a zoom, a selection change, a submit and the pass's own
\* setGraphData run none), and the graph changes only when a query settles.
OneLayoutPerLoad ==
    /\ [](lastOp.layouts <= 1)
    /\ [](lastOp.layouts > 0 => lastOp.op = "settle")
    /\ [][graphData' # graphData => lastOp'.op = "settle"]_vars

PannedLoadedGraphWithoutPass ==
    /\ lastOp.op = "mouseMove"
    /\ lastOp.layouts = 0
    /\ panOps > 0
    /\ pan # [x |-> 0, y |-> 0]
    /\ pending = <<>>
    /\ Len(graphData.nodes) > 0
    /\ \A k \in 1..Len(graphData.nodes) : graphData.nodes[k].x # None

\* C28: once every submitted query has settled, the current graph is the one
\* for the most recently submitted root name, whatever the order in which the
\* responses settled.
LatestQueryWins ==
    (pending = <<>> /\ lastSubmitted # None) =>
        /\ Len(graphData.nodes) > 0
        /\ graphData.nodes[1].id = lastSubmitted[1]

\* C29: the graph a settled query leaves depends only on the submitted root
\* name, not on the outcome or the body of the fetch: it is the graph every
\* outcome and every body would have given at that time, and apart from the
\* timestamp property of the two events it is the same at every time.
withoutTimestamps(data) ==
    [data EXCEPT !.nodes =
        [k \in 1..Len(data.nodes) |->
            IF "timestamp" \in DOMAIN data.nodes[k].properties
            THEN [data.nodes[k] EXCEPT !.properties.timestamp = 0]
            ELSE data.nodes[k]]]

GraphIndependentOfResponse ==
    lastOp.op = "settle" =>
        \A outcome \in Outcomes, apiData \in ApiBodies :
            /\ withoutPositions(graphData) =
                   fetchedGraph(lastOp.root, outcome, apiData, lastOp.now)
            /\ \A now \in 0..MaxClock :
                   withoutTimestamps(withoutPositions(graphData)) =
                       withoutTimestamps(fetchedGraph(lastOp.root, outcome, apiData, now))

SettledWithSuccessfulResponse ==
    /\ lastOp.op = "settle"
    /\ lastOp.outcome = "ok"
    /\ fetches > 1
    /\ Len(graphData.nodes) > 0

\* C30: once every confirmed delete request has settled, the node list holds
\* none of the nodes whose request succeeded, whatever the order in which
\* the requests were confirmed and settled.
NoDeletedNodeRemains ==
    kmDeletes = <<>> => idsOf(kmNodes) \cap kmDeleted = {}

====
